---- MODULE Spec2Model ----
(***************************************************************************)
(* Model of the Software-Challenge Python client.                          *)
(*                                                                         *)
(* GameClient (socha/api/networking/game_client.py) is modelled as a state *)
(* machine: one action per iteration of GameClient._client_loop, split by  *)
(* the kind of object the blocking read returned.  Every handler is a      *)
(* function on a record of the client's fields, applied in the order the   *)
(* code calls them, and every call the client makes to the handler or to   *)
(* the transport is recorded in `calls`.                                   *)
(***************************************************************************)
EXTENDS Integers, Sequences, FiniteSets, TLC

\* ---------------------------------------------------------------- bounds
\* Number of inbound objects the transport delivers in one run.
MaxPackets == 4

\* Largest board of the plugin model: width (len(gameField)) and height.
MaxWidth == 3
MaxHeight == 3
\* Coordinates handed to the coordinate and lookup functions lie in
\* -MaxCoord..MaxCoord.
MaxCoord == 3
\* Lookups and ray casts are applied to game states up to this turn.
MaxProbeTurn == 1

\* ------------------------------------------------------------- constants
\* range(3) in GameClient._handle_left
ReconnectAttempts == 3

\* A falsy str / None configuration value.
NoValue == ""
Reservations == {NoValue, "res"}
RoomIds == {NoValue, "room"}
\* Room ids carried by inbound packets.
Rooms == {"r1", "r2"}

\* Outcome of one XMLProtocolInterface.connect() call.
ConnectOutcomes == {"ok", "fail", "raise"}

\* What calculate_move may return: None (<<>>) or a Move <<from, to>>,
\* where an absent origin is <<>>.
NoMove == <<>>
Moves == { << <<>>, <<3, -1>> >> }
MoveResponses == {NoMove} \cup Moves

\* Attribute shapes of a ProtocolPacket that is none of Errorpacket,
\* Joined, Left, Room.
PacketShapes == {"no_room_id", "no_data", "other_data"}

VARIABLES
    reservation,     \* GameClient.reservation
    room_id,         \* GameClient.room_id
    auto_reconnect,  \* GameClient.auto_reconnect
    survive,         \* GameClient.survive
    running,         \* GameClient.running
    connected,       \* GameClient.network_interface.connected
    first_time,      \* GameClient.first_time
    history,         \* IClientHandler.history
    sent,            \* packets handed to _send, in order
    pc,              \* "init", "loop", "exited" (sys.exit) or "crashed" (exception)
    nrecv,           \* number of objects _receive has returned
    response,        \* the object handled by the last loop iteration
    calls            \* handler and transport calls of the last loop iteration

\* Plugin2023: the game state under test and the last function applied.
VARIABLES
    gameState,       \* a GameState
    op,              \* name of the function applied last
    args,            \* its arguments
    out              \* its result

client == <<reservation, room_id, auto_reconnect, survive, running, connected,
            first_time, history, sent, pc, nrecv, response, calls>>

plugin == <<gameState, op, args, out>>

vars == <<reservation, room_id, auto_reconnect, survive, running, connected,
          first_time, history, sent, pc, nrecv, response, calls,
          gameState, op, args, out>>

config == <<reservation, room_id, auto_reconnect, survive>>

\* ------------------------------------------------------------ packets
NoData == [class |-> "", from |-> <<>>, to |-> <<>>]

Packet(t, r, c, d) == [type |-> t, room_id |-> r, reservation_code |-> c, data |-> d]

Join == Packet("Join", NoValue, NoValue, NoData)
JoinRoom(r) == Packet("JoinRoom", r, NoValue, NoData)
JoinPrepared(c) == Packet("JoinPrepared", NoValue, c, NoData)
Room(r, d) == Packet("Room", r, NoValue, d)

\* utils.handle_move: the protocol representation of a Move.
handle_move(m) == [class |-> "move", from |-> m[1], to |-> m[2]]

\* Inbound objects.
Response(k, r, s) == [kind |-> k, room_id |-> r, shape |-> s]
NoResponse == Response("", NoValue, "")

\* ------------------------------------------------------- history entries
GameStateEntry(seq, prev) == [type |-> "GameState", seq |-> seq, prev |-> prev]
ResultEntry(seq) == [type |-> "Result", seq |-> seq, prev |-> 0]

\* utils.if_not_last_game_state: snapshot built from the packet alone.
if_not_last_game_state(seq) == GameStateEntry(seq, 0)
\* utils.if_last_game_state: snapshot built from the packet and the last one.
if_last_game_state(seq, last) == GameStateEntry(seq, last.seq)

\* ---------------------------------------------------- the client's fields
Client == [running |-> running, connected |-> connected, first_time |-> first_time,
           history |-> history, sent |-> sent, calls |-> <<>>, raised |-> FALSE]

Call(s, name) == [s EXCEPT !.calls = Append(@, <<name>>)]
CallWith(s, name, arg) == [s EXCEPT !.calls = Append(@, <<name, arg>>)]

\* XMLProtocolInterface._send
_send(s, pkt) == CallWith([s EXCEPT !.sent = Append(@, pkt)], "_send", pkt)

\* XMLProtocolInterface.disconnect
disconnect(s) == Call([s EXCEPT !.connected = FALSE], "disconnect")

\* XMLProtocolInterface.connect, returning normally
connect(s, outcome) ==
    CallWith([s EXCEPT !.connected = (outcome = "ok")], "connect", outcome)

\* stop() that closes the transport whether or not it is connected.
stop_AlwaysDisconnect(s) == [disconnect(Call(s, "stop")) EXCEPT !.running = FALSE]

\* stop() that forgets to close the transport.
stop_NoDisconnect(s) == [Call(s, "stop") EXCEPT !.running = FALSE]

\* GameClient.stop
stop(s) ==
    LET s0 == Call(s, "stop")
        s1 == IF s0.connected THEN disconnect(s0) ELSE s0
    IN [s1 EXCEPT !.running = FALSE]

\* join() that starts the history over with the new slot.
join_ClearsHistory(s) ==
    LET s0 == Call(s, "join")
        s1 == IF reservation # NoValue THEN _send(s0, JoinPrepared(reservation))
              ELSE IF room_id # NoValue THEN _send(s0, JoinRoom(room_id))
              ELSE _send(s0, Join)
    IN [s1 EXCEPT !.first_time = FALSE, !.history = << <<>> >>]

\* join() that looks at the room id before the reservation.
join_RoomFirst(s) ==
    LET s0 == Call(s, "join")
        s1 == IF room_id # NoValue THEN _send(s0, JoinRoom(room_id))
              ELSE IF reservation # NoValue THEN _send(s0, JoinPrepared(reservation))
              ELSE _send(s0, Join)
    IN [s1 EXCEPT !.first_time = FALSE, !.history = Append(@, <<>>)]

\* GameClient.join
join(s) ==
    LET s0 == Call(s, "join")
        s1 == IF reservation # NoValue THEN _send(s0, JoinPrepared(reservation))
              ELSE IF room_id # NoValue THEN _send(s0, JoinRoom(room_id))
              ELSE _send(s0, Join)
    IN [s1 EXCEPT !.first_time = FALSE, !.history = Append(@, <<>>)]

\* The for loop without its break.
RECURSIVE ReconnectLoop_NoBreak(_, _, _)
ReconnectLoop_NoBreak(s, outcomes, i) ==
    IF i > ReconnectAttempts THEN s
    ELSE IF outcomes[i] = "raise"
         THEN ReconnectLoop_NoBreak(stop(CallWith(s, "connect", "raise")), outcomes, i + 1)
         ELSE ReconnectLoop_NoBreak(connect(s, outcomes[i]), outcomes, i + 1)

\* The for loop of GameClient._handle_left, from attempt i on.
RECURSIVE ReconnectLoop(_, _, _)
ReconnectLoop(s, outcomes, i) ==
    IF i > ReconnectAttempts THEN s
    ELSE IF outcomes[i] = "raise"
         THEN ReconnectLoop(stop(CallWith(s, "connect", "raise")), outcomes, i + 1)
         ELSE LET s1 == connect(s, outcomes[i])
              IN IF s1.connected THEN s1
                 ELSE ReconnectLoop(s1, outcomes, i + 1)

\* _handle_left whose final stop() is missing.
_handle_left_NoStop(s, outcomes) ==
    LET s0 == disconnect([s EXCEPT !.first_time = TRUE])
        s1 == IF survive THEN Call(s0, "while_disconnected") ELSE s0
    IN IF auto_reconnect
       THEN join(ReconnectLoop(s1, outcomes, 1))
       ELSE s1

\* GameClient._handle_left
_handle_left(s, outcomes) ==
    LET s0 == disconnect([s EXCEPT !.first_time = TRUE])
        s1 == IF survive THEN Call(s0, "while_disconnected") ELSE s0
    IN IF auto_reconnect
       THEN join(ReconnectLoop(s1, outcomes, 1))
       ELSE stop(s1)

\* A look at the slot's last entry only, instead of the scan.
LastGameState_LastEntryOnly(slot, i) ==
    IF i = 0 THEN ResultEntry(0)
    ELSE IF slot[i].type = "GameState" THEN slot[i]
    ELSE ResultEntry(0)

\* The scan without [::-1]: the oldest GameState of the slot.
LastGameState_Forward(slot, i) ==
    IF \E j \in 1..i : slot[j].type = "GameState"
    THEN slot[CHOOSE j \in 1..i : /\ slot[j].type = "GameState"
                                  /\ \A k \in 1..(j - 1) : slot[k].type # "GameState"]
    ELSE ResultEntry(0)

\* The most recent GameState of a history slot (the reversed scan of _on_state).
RECURSIVE LastGameState(_, _)
LastGameState(slot, i) ==
    IF i = 0 THEN ResultEntry(0)
    ELSE IF slot[i].type = "GameState" THEN slot[i]
    ELSE LastGameState(slot, i - 1)

\* _on_state that falls back on the previous slot when the current one
\* holds no GameState.
_on_state_EarlierSlot(s, seq) ==
    LET n == Len(s.history)
        slot == s.history[n]
        own == LastGameState(slot, Len(slot))
        last_game_state == IF own.type = "GameState" \/ n = 1 THEN own
                           ELSE LastGameState(s.history[n - 1], Len(s.history[n - 1]))
        _game_state == IF last_game_state.type = "GameState"
                       THEN if_last_game_state(seq, last_game_state)
                       ELSE if_not_last_game_state(seq)
        s1 == [s EXCEPT !.history[Len(s.history)] = Append(@, _game_state)]
    IN CallWith(s1, "on_update", _game_state)

\* _on_state that hands the previous snapshot to on_update.
_on_state_StaleUpdate(s, seq) ==
    LET slot == s.history[Len(s.history)]
        last_game_state == LastGameState(slot, Len(slot))
        _game_state == IF last_game_state.type = "GameState"
                       THEN if_last_game_state(seq, last_game_state)
                       ELSE if_not_last_game_state(seq)
        s1 == [s EXCEPT !.history[Len(s.history)] = Append(@, _game_state)]
    IN CallWith(s1, "on_update", last_game_state)

\* GameClient._on_state
_on_state(s, seq) ==
    LET slot == s.history[Len(s.history)]
        last_game_state == LastGameState(slot, Len(slot))
        _game_state == IF last_game_state.type = "GameState"
                       THEN if_last_game_state(seq, last_game_state)
                       ELSE if_not_last_game_state(seq)
        s1 == [s EXCEPT !.history[Len(s.history)] = Append(@, _game_state)]
    IN CallWith(s1, "on_update", _game_state)

\* The move answered to the configured room instead of the requesting one.
_on_move_request_OwnRoom(s, room, move_response) ==
    LET s0 == CallWith(s, "calculate_move", move_response)
    IN IF move_response # NoMove
       THEN _send(s0, Room(room_id, handle_move(move_response)))
       ELSE s0

\* GameClient._on_move_request
_on_move_request(s, room, move_response) ==
    LET s0 == CallWith(s, "calculate_move", move_response)
    IN IF move_response # NoMove
       THEN _send(s0, Room(room, handle_move(move_response)))
       ELSE s0

\* GameClient._on_object
_on_object(s, message, seq, move_response) ==
    IF message.kind = "Errorpacket" THEN stop(Call(s, "on_error"))
    ELSE IF message.kind = "Packet" /\ message.shape = "no_room_id"
         THEN [s EXCEPT !.raised = TRUE]
    ELSE IF message.kind = "Joined" THEN CallWith(s, "on_game_joined", message.room_id)
    ELSE IF message.kind = "Left" THEN Call(s, "on_game_left")
    ELSE IF message.kind = "Packet" /\ message.shape = "no_data"
         THEN [s EXCEPT !.raised = TRUE]
    ELSE IF message.kind = "MoveRequest" THEN _on_move_request(s, message.room_id, move_response)
    ELSE IF message.kind = "State" THEN _on_state(s, seq)
    ELSE IF message.kind = "Result"
         THEN CallWith([s EXCEPT !.history[Len(s.history)] = Append(@, ResultEntry(seq))],
                       "on_game_over", ResultEntry(seq))
    ELSE IF message.kind = "RoomMessage" THEN Call(s, "on_room_message")
    ELSE s

\* ---------------------------------------------------------------- actions
Commit(s, message) ==
    /\ running' = s.running
    /\ connected' = s.connected
    /\ first_time' = s.first_time
    /\ history' = s.history
    /\ sent' = s.sent
    /\ calls' = s.calls
    /\ response' = message
    /\ pc' = IF s.raised THEN "crashed" ELSE "loop"
    /\ UNCHANGED config
    /\ UNCHANGED plugin

Init ==
    /\ reservation \in Reservations
    /\ room_id \in RoomIds
    /\ auto_reconnect \in BOOLEAN
    /\ survive \in BOOLEAN
    /\ running = FALSE
    /\ connected = FALSE
    /\ first_time = TRUE
    /\ history = <<>>
    /\ sent = <<>>
    /\ pc = "init"
    /\ nrecv = 0
    /\ response = NoResponse
    /\ calls = <<>>
    /\ gameState = <<>>
    /\ op = ""
    /\ args = <<>>
    /\ out = <<>>

\* Bootstrap: connect(), join(), start().
Starter ==
    /\ pc = "init"
    /\ LET s == join(connect(Client, "ok"))
       IN Commit([s EXCEPT !.running = TRUE], NoResponse)
    /\ UNCHANGED nrecv

Receiving ==
    /\ pc = "loop"
    /\ running
    /\ connected
    /\ nrecv < MaxPackets
    /\ nrecv' = nrecv + 1

\* An empty read treated like a lost connection: the hook is called.
ReceiveEmpty_CallsHook ==
    /\ Receiving
    /\ Commit(Call(Client, "while_disconnected"), Response("Empty", NoValue, ""))

\* _client_loop: the read returned nothing.
ReceiveEmpty ==
    /\ Receiving
    /\ Commit(Client, Response("Empty", NoValue, ""))

\* A Left packet that is also handed to _on_object.
ReceiveLeft_AlsoDispatched ==
    /\ Receiving
    /\ \E r \in Rooms, outcomes \in [1..ReconnectAttempts -> ConnectOutcomes] :
          LET message == Response("Left", r, "")
          IN Commit(_handle_left(_on_object(Call(Client, "on_game_left"), message,
                                            nrecv + 1, NoMove), outcomes),
                    message)

\* _client_loop: a Left packet.
ReceiveLeft ==
    /\ Receiving
    /\ \E r \in Rooms, outcomes \in [1..ReconnectAttempts -> ConnectOutcomes] :
          Commit(_handle_left(Call(Client, "on_game_left"), outcomes),
                 Response("Left", r, ""))

\* _client_loop: any other ProtocolPacket is handed to _on_object.
ReceiveError ==
    /\ Receiving
    /\ LET message == Response("Errorpacket", NoValue, "")
       IN Commit(_on_object(Client, message, nrecv + 1, NoMove), message)

ReceiveJoined ==
    /\ Receiving
    /\ \E r \in Rooms :
          LET message == Response("Joined", r, "")
          IN Commit(_on_object(Client, message, nrecv + 1, NoMove), message)

ReceiveMoveRequest ==
    /\ Receiving
    /\ \E r \in Rooms, move_response \in MoveResponses :
          LET message == Response("MoveRequest", r, "")
          IN Commit(_on_object(Client, message, nrecv + 1, move_response), message)

ReceiveState ==
    /\ Receiving
    /\ \E r \in Rooms :
          LET message == Response("State", r, "")
          IN Commit(_on_object(Client, message, nrecv + 1, NoMove), message)

ReceiveResult ==
    /\ Receiving
    /\ \E r \in Rooms :
          LET message == Response("Result", r, "")
          IN Commit(_on_object(Client, message, nrecv + 1, NoMove), message)

ReceiveRoomMessage ==
    /\ Receiving
    /\ \E r \in Rooms :
          LET message == Response("RoomMessage", r, "")
          IN Commit(_on_object(Client, message, nrecv + 1, NoMove), message)

ReceiveUnknownPacket ==
    /\ Receiving
    /\ \E sh \in PacketShapes :
          LET message == Response("Packet", NoValue, sh)
          IN Commit(_on_object(Client, message, nrecv + 1, NoMove), message)

\* _client_loop: a truthy object that is no ProtocolPacket.
ReceiveUnknownObject ==
    /\ Receiving
    /\ Commit([Client EXCEPT !.raised = TRUE], Response("Object", NoValue, ""))

\* _client_loop: no connection, the while_disconnected hook is called and
\* its return value dropped.
WhileDisconnected ==
    /\ pc = "loop"
    /\ running
    /\ ~connected
    /\ \E shut_down \in BOOLEAN :
          Commit(CallWith(Client, "while_disconnected", shut_down), NoResponse)
    /\ UNCHANGED nrecv

\* _client_loop: running is false, the loop ends and sys.exit(0) is called.
LoopExit ==
    /\ pc = "loop"
    /\ ~running
    /\ pc' = "exited"
    /\ UNCHANGED <<config, running, connected, first_time, history, sent,
                   nrecv, response, calls>>
    /\ UNCHANGED plugin

Next ==
    \/ Starter
    \/ ReceiveEmpty
    \/ ReceiveLeft
    \/ ReceiveError
    \/ ReceiveJoined
    \/ ReceiveMoveRequest
    \/ ReceiveState
    \/ ReceiveResult
    \/ ReceiveRoomMessage
    \/ ReceiveUnknownPacket
    \/ ReceiveUnknownObject
    \/ WhileDisconnected
    \/ LoopExit

Spec == Init /\ [][Next]_vars

\* ===================================================== Plugin2023: model
\* int(n / 2) of Python: true division, truncated toward zero.
TruncHalf(n) == IF n >= 0 THEN n \div 2 ELSE -((-n) \div 2)

\* Vector
Vector(dx, dy) == [dx |-> dx, dy |-> dy]
times(v, scalar) == Vector(v.dx * scalar, v.dy * scalar)
plus(v, other) == Vector(v.dx + other.dx, v.dy + other.dy)
minus(v, other) == Vector(v.dx - other.dx, v.dy - other.dy)
DIRECTIONS == << Vector(1, -1), Vector(-2, 0), Vector(1, 1),
                 Vector(-1, 1), Vector(2, 0), Vector(-1, -1) >>

\* Coordinates
Coordinates(x, y, isDouble) == [x |-> x, y |-> y, isDouble |-> isDouble]
toCoordinates(v) == Coordinates(v.dx, v.dy, TRUE)
getVector(c) == Vector(c.x, c.y)
arrayToDoubleHex(c) == Coordinates(c.x * 2 + (IF c.y % 2 = 1 THEN 1 ELSE 0), c.y, TRUE)
\* int(self.x / 2 - (1 if self.y % 2 == 1 else 0))
doubleHexToArray(c) ==
    Coordinates(TruncHalf(c.x - 2 * (IF c.y % 2 = 1 THEN 1 ELSE 0)), c.y, FALSE)
getArray(c) == IF ~c.isDouble THEN c ELSE doubleHexToArray(c)
getDoubleHex(c) == IF c.isDouble THEN c ELSE arrayToDoubleHex(c)
addVector(c, vector) ==
    IF c.isDouble THEN toCoordinates(plus(getVector(c), vector))
    ELSE getArray(toCoordinates(plus(getVector(getDoubleHex(c)), vector)))

\* minusVector has one branch only, whatever the receiver's tag.
minusVector(c, vector) == toCoordinates(minus(getVector(c), vector))

\* Move: fromCoo is <<>> (None) or <<origin>>.
Move(toCoo, fromCoo) == [fromCoo |-> fromCoo, toCoo |-> toCoo]

\* Team
opponent(team) == IF team = "ONE" THEN "TWO" ELSE "ONE"

\* Field: an int (fish) or a Team.
FishField(n) == [isTeam |-> FALSE, fish |-> n, team |-> ""]
TeamField(team) == [isTeam |-> TRUE, fish |-> 0, team |-> team]
\* None where a Field or a fish count is expected.
NoFish == -1
NoField == [isTeam |-> FALSE, fish |-> NoFish, team |-> ""]
isOccupied(field) == field.isTeam
getFish(field) == IF isOccupied(field) THEN NoFish ELSE field.fish
getPenguin(field) == IF field.isTeam THEN field.team ELSE ""

\* HexBoard: gameField[x][y], x in 0..width-1, y in 0..height-1.
width(gameField) == Cardinality(DOMAIN gameField)
height(gameField) == Cardinality(DOMAIN gameField[0])

\* Result of a lookup: a Field, None, or IndexError raised.
Returned(field) == [raised |-> "", none |-> FALSE, field |-> field]
ReturnedNone == [raised |-> "", none |-> TRUE, field |-> NoField]
Raised(error) == [raised |-> error, none |-> FALSE, field |-> NoField]

\* isValid without the lower bounds.
isValid_NoLowerBound(gameField, coordinates) ==
    LET arrayCoordinates == getArray(coordinates)
    IN /\ arrayCoordinates.x < width(gameField)
       /\ arrayCoordinates.y < height(gameField)

isValid(gameField, coordinates) ==
    LET arrayCoordinates == getArray(coordinates)
    IN /\ 0 <= arrayCoordinates.x /\ arrayCoordinates.x < width(gameField)
       /\ 0 <= arrayCoordinates.y /\ arrayCoordinates.y < height(gameField)

\* HexBoard.__getField: gameField[x][y] with Python's list indexing.
getFieldXY(gameField, x, y) ==
    LET w == width(gameField)
        h == height(gameField)
    IN IF -w <= x /\ x < w /\ -h <= y /\ y < h
       THEN Returned(gameField[x % w][y % h])
       ELSE Raised("IndexError")

getField(gameField, position) ==
    LET arrayCoordinates == getArray(position)
    IN IF isValid(gameField, arrayCoordinates)
       THEN getFieldXY(gameField, arrayCoordinates.x, arrayCoordinates.y)
       ELSE Raised("IndexError")

getFieldOrNone(gameField, position) ==
    LET arrayCoordinates == getArray(position)
    IN IF isValid(gameField, arrayCoordinates)
       THEN getFieldXY(gameField, arrayCoordinates.x, arrayCoordinates.y)
       ELSE ReturnedNone

\* HexBoard.getFieldByIndex: x = index // width, y = index % width.
getFieldByIndex(gameField, index) ==
    getField(gameField, Coordinates(index \div width(gameField),
                                    index % width(gameField), FALSE))

\* Result of getAllFields: the list of fields, or IndexError raised.
FieldsResult(raised, fields) == [raised |-> raised, fields |-> fields]

\* HexBoard.getAllFields
getAllFields(gameField) ==
    LET looked == [i \in 1..(width(gameField) * height(gameField)) |->
                      getFieldByIndex(gameField, i - 1)]
    IN IF \E i \in 1..Len(looked) : looked[i].raised # ""
       THEN FieldsResult("IndexError", <<>>)
       ELSE FieldsResult("", [i \in 1..Len(looked) |-> looked[i].field])

\* Board.getMovesInDirection: addVector never raises IndexError, so the
\* loop over range(1, width) always runs to its end.
getMovesInDirection(gameField, origin, direction) ==
    [i \in 1..(width(gameField) - 1) |->
        Move(addVector(getDoubleHex(origin), times(direction, i)), <<origin>>)]

RECURSIVE Concat(_, _)
Concat(lists, i) == IF i > Len(lists) THEN <<>> ELSE lists[i] \o Concat(lists, i + 1)

\* Result of a move generator: the list of moves, or IndexError raised.
MovesResult(raised, moves) == [raised |-> raised, moves |-> moves]

\* Board.possibleMovesFrom
possibleMovesFrom(gameField, position) ==
    IF ~isValid(gameField, position) THEN MovesResult("IndexError", <<>>)
    ELSE MovesResult("", Concat([d \in 1..Len(DIRECTIONS) |->
                                    getMovesInDirection(gameField, position, DIRECTIONS[d])], 1))

\* Board.getTeamsPenguins: x outer, y inner.
getTeamsPenguins(gameField, team) ==
    LET h == height(gameField)
        cells == [i \in 1..(width(gameField) * h) |->
                     Coordinates((i - 1) \div h, (i - 1) % h, FALSE)]
        IsTeams(c) == LET currentField == getField(gameField, c).field
                      IN isOccupied(currentField) /\ getPenguin(currentField) = team
        found == SelectSeq(cells, IsTeams)
    IN [i \in 1..Len(found) |-> getDoubleHex(found[i])]

\* currentTeamFromTurn with the parity test inverted.
currentTeamFromTurn_OddStarts(startTeam, turn) ==
    IF turn % 2 = 1 THEN startTeam ELSE opponent(startTeam)

\* GameState.currentTeamFromTurn
currentTeamFromTurn(startTeam, turn) ==
    IF turn % 2 = 0 THEN startTeam ELSE opponent(startTeam)

\* GameState.__init__
GameState(board, turn, startTeam) ==
    [board |-> board, turn |-> turn, startTeam |-> startTeam,
     round |-> (turn + 1) \div 2,
     currentTeam |-> currentTeamFromTurn(startTeam, turn),
     otherTeam |-> opponent(currentTeamFromTurn(startTeam, turn)),
     currentPieces |-> getTeamsPenguins(board, currentTeamFromTurn(startTeam, turn))]

\* getPossibleMoves whose placement scan covers the last row and column.
getPossibleMoves_FullScan(state) ==
    IF Len(state.currentPieces) < 4
    THEN LET h1 == height(state.board)
             n == width(state.board) * h1
             cells == [i \in 1..n |-> Coordinates((i - 1) \div h1, (i - 1) % h1, FALSE)]
             IsFree(c) == LET field == getField(state.board, c).field
                          IN ~isOccupied(field) /\ getFish(field) = 1
             free == SelectSeq(cells, IsFree)
         IN MovesResult("", [i \in 1..Len(free) |-> Move(getDoubleHex(free[i]), <<>>)])
    ELSE LET from == [i \in 1..Len(state.currentPieces) |->
                         possibleMovesFrom(state.board, state.currentPieces[i])]
         IN IF \E i \in 1..Len(from) : from[i].raised # ""
            THEN MovesResult("IndexError", <<>>)
            ELSE MovesResult("", Concat([i \in 1..Len(from) |-> from[i].moves], 1))

\* getPossibleMoves that still places with four pieces on the board.
getPossibleMoves_FourPlaces(state) ==
    IF Len(state.currentPieces) <= 4
    THEN LET h1 == height(state.board) - 1
             n == IF h1 > 0 THEN (width(state.board) - 1) * h1 ELSE 0
             cells == [i \in 1..n |-> Coordinates((i - 1) \div h1, (i - 1) % h1, FALSE)]
             IsFree(c) == LET field == getField(state.board, c).field
                          IN ~isOccupied(field) /\ getFish(field) = 1
             free == SelectSeq(cells, IsFree)
         IN MovesResult("", [i \in 1..Len(free) |-> Move(getDoubleHex(free[i]), <<>>)])
    ELSE LET from == [i \in 1..Len(state.currentPieces) |->
                         possibleMovesFrom(state.board, state.currentPieces[i])]
         IN IF \E i \in 1..Len(from) : from[i].raised # ""
            THEN MovesResult("IndexError", <<>>)
            ELSE MovesResult("", Concat([i \in 1..Len(from) |-> from[i].moves], 1))

\* GameState.getPossibleMoves
getPossibleMoves(state) ==
    IF Len(state.currentPieces) < 4
    THEN LET h1 == height(state.board) - 1
             n == IF h1 > 0 THEN (width(state.board) - 1) * h1 ELSE 0
             cells == [i \in 1..n |-> Coordinates((i - 1) \div h1, (i - 1) % h1, FALSE)]
             IsFree(c) == LET field == getField(state.board, c).field
                          IN ~isOccupied(field) /\ getFish(field) = 1
             free == SelectSeq(cells, IsFree)
         IN MovesResult("", [i \in 1..Len(free) |-> Move(getDoubleHex(free[i]), <<>>)])
    ELSE LET from == [i \in 1..Len(state.currentPieces) |->
                         possibleMovesFrom(state.board, state.currentPieces[i])]
         IN IF \E i \in 1..Len(from) : from[i].raised # ""
            THEN MovesResult("IndexError", <<>>)
            ELSE MovesResult("", Concat([i \in 1..Len(from) |-> from[i].moves], 1))

\* ------------------------------------------------ Plugin2023: state machine
\* The board a game starts with: fish on every cell, no penguin.
InitialBoard(w, h) == [x \in 0..(w - 1) |-> [y \in 0..(h - 1) |-> FishField((2 * x + y + 1) % 3)]]

Teams == {"ONE", "TWO"}
Cells(gameField) == (0..(width(gameField) - 1)) \X (0..(height(gameField) - 1))
CellIndex(gameField, cell) == cell[1] * height(gameField) + cell[2]
CoordRange == (-MaxCoord)..MaxCoord

ClientIdle ==
    /\ reservation = NoValue
    /\ room_id = NoValue
    /\ auto_reconnect = FALSE
    /\ survive = FALSE
    /\ running = FALSE
    /\ connected = FALSE
    /\ first_time = TRUE
    /\ history = <<>>
    /\ sent = <<>>
    /\ pc = "init"
    /\ nrecv = 0
    /\ response = NoResponse
    /\ calls = <<>>

PluginInit ==
    /\ ClientIdle
    /\ \E w \in 1..MaxWidth, h \in 1..MaxHeight, startTeam \in Teams :
          gameState = GameState(InitialBoard(w, h), 0, startTeam)
    /\ op = ""
    /\ args = <<>>
    /\ out = <<>>

\* The function `name` is applied to `a` in a state no function was applied
\* to yet, and returns `result`.
Applied(name, a, result) ==
    /\ op = ""
    /\ op' = name
    /\ args' = a
    /\ out' = result
    /\ UNCHANGED gameState
    /\ UNCHANGED client

\* The server's next state: the team to move, still short of four penguins,
\* has set one on a free cell behind all penguins on the board, and a new
\* GameState is built.
NewTurn ==
    /\ Len(gameState.currentPieces) < 4
    /\ \E cell \in Cells(gameState.board) :
          /\ \A other \in Cells(gameState.board) :
                isOccupied(gameState.board[other[1]][other[2]])
                    => CellIndex(gameState.board, other) < CellIndex(gameState.board, cell)
          /\ gameState' = GameState([gameState.board EXCEPT ![cell[1]][cell[2]] =
                                         TeamField(gameState.currentTeam)],
                                    gameState.turn + 1, gameState.startTeam)
    /\ op' = ""
    /\ args' = <<>>
    /\ out' = <<>>
    /\ UNCHANGED client

\* c.arrayToDoubleHex().doubleHexToArray() for an array coordinate c.
ArrayRoundTrip ==
    /\ gameState.turn = 0
    /\ \E x \in 0..MaxCoord, y \in 0..MaxCoord :
          LET c == Coordinates(x, y, FALSE)
          IN Applied("arrayRoundTrip", c, doubleHexToArray(arrayToDoubleHex(c)))

\* d.doubleHexToArray().arrayToDoubleHex() for the double-hex form d of an
\* array coordinate.
DoubleHexRoundTrip ==
    /\ gameState.turn = 0
    /\ \E x \in 0..MaxCoord, y \in 0..MaxCoord :
          LET d == arrayToDoubleHex(Coordinates(x, y, FALSE))
          IN Applied("doubleHexRoundTrip", d, arrayToDoubleHex(doubleHexToArray(d)))

\* c.addVector(v) and c.minusVector(v) for a coordinate of either tag.
AddVector ==
    /\ gameState.turn = 0
    /\ \E x \in 0..MaxCoord, y \in 0..MaxCoord, isDouble \in BOOLEAN, d \in 1..Len(DIRECTIONS) :
          LET c == Coordinates(x, y, isDouble)
          IN Applied("addVector", <<c, DIRECTIONS[d]>>, addVector(c, DIRECTIONS[d]))

MinusVector ==
    /\ gameState.turn = 0
    /\ \E x \in 0..MaxCoord, y \in 0..MaxCoord, isDouble \in BOOLEAN, d \in 1..Len(DIRECTIONS) :
          LET c == Coordinates(x, y, isDouble)
          IN Applied("minusVector", <<c, DIRECTIONS[d]>>, minusVector(c, DIRECTIONS[d]))

Probing == gameState.turn <= MaxProbeTurn

IsValid ==
    /\ Probing
    /\ \E x \in CoordRange, y \in CoordRange :
          LET c == Coordinates(x, y, FALSE)
          IN Applied("isValid", c, isValid(gameState.board, c))

GetField ==
    /\ Probing
    /\ \E x \in CoordRange, y \in CoordRange :
          LET c == Coordinates(x, y, FALSE)
          IN Applied("getField", c, getField(gameState.board, c))

GetFieldOrNone ==
    /\ Probing
    /\ \E x \in CoordRange, y \in CoordRange :
          LET c == Coordinates(x, y, FALSE)
          IN Applied("getFieldOrNone", c, getFieldOrNone(gameState.board, c))

GetMovesInDirection ==
    /\ Probing
    /\ \E cell \in Cells(gameState.board), d \in 1..Len(DIRECTIONS) :
          LET origin == arrayToDoubleHex(Coordinates(cell[1], cell[2], FALSE))
          IN Applied("getMovesInDirection", <<origin, DIRECTIONS[d]>>,
                     getMovesInDirection(gameState.board, origin, DIRECTIONS[d]))

GetAllFields ==
    /\ Probing
    /\ Applied("getAllFields", <<>>, getAllFields(gameState.board))

GetPossibleMoves ==
    Applied("getPossibleMoves", <<>>, getPossibleMoves(gameState))

PluginNext ==
    \/ NewTurn
    \/ ArrayRoundTrip
    \/ DoubleHexRoundTrip
    \/ AddVector
    \/ MinusVector
    \/ IsValid
    \/ GetField
    \/ GetFieldOrNone
    \/ GetMovesInDirection
    \/ GetAllFields
    \/ GetPossibleMoves

PluginSpec == PluginInit /\ [][PluginNext]_vars

\* ------------------------------------------------- reading the call log
CallNames == [i \in 1..Len(calls) |-> calls[i][1]]
Count(name) == Cardinality({i \in 1..Len(calls) : calls[i][1] = name})
IsConnect(c) == c[1] = "connect"
\* Outcomes of the connect() calls of the last iteration, in order.
Attempts == LET cs == SelectSeq(calls, IsConnect) IN [i \in 1..Len(cs) |-> cs[i][2]]
IsSend(c) == c[1] = "_send"
\* Packets handed to _send in the last iteration, in order.
Sends == LET cs == SelectSeq(calls, IsSend) IN [i \in 1..Len(cs) |-> cs[i][2]]
Range(f) == {f[i] : i \in DOMAIN f}
\* The last loop iteration handled a Left packet with auto-reconnect on.
LeftWithReconnect == pc # "init" /\ response.kind = "Left" /\ auto_reconnect
\* The join packet the configuration asks for.
ConfiguredJoin ==
    IF reservation # NoValue THEN JoinPrepared(reservation)
    ELSE IF room_id # NoValue THEN JoinRoom(room_id)
    ELSE Join

\* C1: with auto-reconnect, when a Left packet was handled and all three
\* connection attempts returned without raising and without a connection,
\* the client is stopped (running is false) and no join packet was sent.
C1_ReconnectBound ==
    (LeftWithReconnect /\ Attempts = <<"fail", "fail", "fail">>)
        => (~running /\ Sends = <<>>)

\* C2: with auto-reconnect, when no attempt raised and some attempt
\* connected, that attempt is the last one made, every earlier one failed,
\* join ran exactly once and sent exactly the configured join packet, and
\* the client is running and connected with the loop still active.
C2_ReconnectSuccess ==
    (LeftWithReconnect /\ "raise" \notin Range(Attempts) /\ "ok" \in Range(Attempts))
        => /\ Attempts[Len(Attempts)] = "ok"
           /\ \A i \in 1..(Len(Attempts) - 1) : Attempts[i] = "fail"
           /\ Len(Attempts) <= ReconnectAttempts
           /\ Count("join") = 1
           /\ Sends = <<ConfiguredJoin>>
           /\ sent[Len(sent)] = ConfiguredJoin
           /\ running /\ connected /\ pc = "loop"

C2_Witness ==
    /\ LeftWithReconnect
    /\ Attempts = <<"fail", "ok">>
    /\ reservation # NoValue /\ room_id # NoValue
    /\ Sends = <<JoinPrepared(reservation)>>
    /\ running /\ connected

\* C3: with auto-reconnect, when a connection attempt raised, it is the last
\* attempt made, no join packet was sent, and the client is stopped and
\* disconnected.
C3_RaiseStops ==
    (LeftWithReconnect /\ "raise" \in Range(Attempts))
        => /\ Attempts[Len(Attempts)] = "raise"
           /\ \A i \in 1..(Len(Attempts) - 1) : Attempts[i] # "raise"
           /\ Sends = <<>>
           /\ ~running /\ ~connected

\* C4: in survive mode without auto-reconnect, handling a Left packet
\* disconnects, calls while_disconnected and leaves running true.
C4_SurviveKeepsRunning ==
    (pc # "init" /\ response.kind = "Left" /\ survive /\ ~auto_reconnect)
        => /\ Count("disconnect") >= 1
           /\ Count("while_disconnected") = 1
           /\ ~connected
           /\ running

\* C5: when the loop, not connected, called while_disconnected and the hook
\* returned True (shut down), the loop exits: running is false or the loop
\* has ended.
C5_HookShutsDown ==
    (Len(calls) = 1 /\ calls[1][1] = "while_disconnected" /\ calls[1][2] = TRUE)
        => (~running \/ pc = "exited")

\* C6: a server error packet is fatal.  In the iteration that dispatched it
\* on_error was called exactly once and before stop, nothing was sent, and
\* afterwards running is false and the transport disconnected; from then on
\* the only step is the loop's exit: nothing more is read, dispatched or sent.
C6_ErrorFatal ==
    /\ [](response.kind = "Errorpacket"
            => /\ calls = << <<"on_error">>, <<"stop">>, <<"disconnect">> >>
               /\ ~running /\ ~connected
               /\ pc \in {"loop", "exited"})
    /\ [][response.kind = "Errorpacket"
            => /\ pc = "loop" /\ pc' = "exited"
               /\ UNCHANGED <<nrecv, response, calls, sent, history,
                              running, connected>>]_vars

C6_Witness ==
    response.kind = "Errorpacket" /\ pc = "exited" /\ nrecv >= 2 /\ Len(sent) >= 2

\* C7: an unrecognized non-empty object, protocol packet or not, is fatal:
\* the loop has ended or the client is stopped, and no handler callback was
\* invoked for it.
C7_UnknownFatal ==
    response.kind \in {"Object", "Packet"}
        => /\ (pc \in {"crashed", "exited"} \/ ~running)
           /\ calls = <<>>

\* C8: a move request for room r calls calculate_move exactly once; a move
\* returned is sent in exactly one room message to room r and nothing else
\* is sent; with no usable move nothing is sent; in both cases running and
\* the connection state are unchanged and the loop goes on.
C8_MoveRequest ==
    [][(nrecv' = nrecv + 1 /\ response'.kind = "MoveRequest")
          => /\ Len(calls') >= 1
             /\ calls'[1][1] = "calculate_move"
             /\ LET move_response == calls'[1][2]
                    message == Packet("Room", response'.room_id, NoValue,
                                      [class |-> "move", from |-> move_response[1],
                                       to |-> move_response[2]])
                IN IF move_response # <<>>
                   THEN /\ calls' = << calls'[1], <<"_send", message>> >>
                        /\ sent' = Append(sent, message)
                   ELSE /\ calls' = << calls'[1] >>
                        /\ sent' = sent
             /\ running' = running /\ connected' = connected
             /\ running' /\ connected' /\ pc' = "loop"
             /\ history' = history]_vars

C8_Witness ==
    /\ response.kind = "MoveRequest" /\ response.room_id = "r2"
    /\ Len(calls) = 2
    /\ calls[1] = <<"calculate_move", << <<>>, <<3, -1>> >> >>
    /\ sent[Len(sent)].room_id = "r2"
    /\ sent[Len(sent)].data.to = <<3, -1>>

IsGameState(e) == e.type = "GameState"
\* The GameState entries of the current (last) history slot, in order.
Snapshots(h) == SelectSeq(h[Len(h)], IsGameState)

\* C9: every state-update packet appends exactly one GameState to the
\* current slot, built from scratch iff the slot held no GameState before
\* and otherwise reconciled against the slot's latest one; so the slot's
\* GameStates are in arrival order, the first is built from scratch and each
\* other one is reconciled against its immediate predecessor.
C9_HistoryOrdering ==
    /\ [](pc # "init"
            => LET gs == Snapshots(history)
               IN \A i \in 1..Len(gs) :
                     /\ gs[i].prev = (IF i = 1 THEN 0 ELSE gs[i - 1].seq)
                     /\ (i > 1 => gs[i - 1].seq < gs[i].seq))
    /\ [][(nrecv' = nrecv + 1 /\ response'.kind = "State")
            => /\ Len(history') = Len(history)
               /\ Len(Snapshots(history')) = Len(Snapshots(history)) + 1
               /\ LET slot == history'[Len(history')]
                  IN /\ slot[Len(slot)].type = "GameState"
                     /\ slot[Len(slot)].seq = nrecv'
                     /\ history = [history' EXCEPT ![Len(history')] =
                                       SubSeq(slot, 1, Len(slot) - 1)]]_vars

C9_Witness ==
    /\ pc = "loop"
    /\ Len(history) = 1
    /\ Len(Snapshots(history)) = 3
    /\ Len(history[1]) = 4
    /\ Snapshots(history)[3].prev = Snapshots(history)[2].seq
    /\ Snapshots(history)[1].prev = 0

\* C10: each state-update, result and server error packet received adds
\* exactly one entry to the current history slot: after such a packet the
\* slot's last entry is the one logged for it.
C10_HistoryLogsAll ==
    (pc # "init" /\ response.kind \in {"State", "Result", "Errorpacket"})
        => LET slot == history[Len(history)]
           IN Len(slot) >= 1 /\ slot[Len(slot)].seq = nrecv

CountIn(cs, name) == Cardinality({i \in 1..Len(cs) : cs[i][1] = name})
SendsIn(cs) == LET ss == SelectSeq(cs, IsSend) IN [i \in 1..Len(ss) |-> ss[i][2]]
\* The step ran a loop iteration or the bootstrap (it is not the loop's exit).
Handled == nrecv' = nrecv + 1 \/ (pc = "init" /\ pc' = "loop")

\* C11: every run of join() sends exactly one join packet, JoinPrepared when
\* a reservation is set (whatever the room id), else JoinRoom when a room id
\* is set, else Join, and appends exactly one empty slot to the history,
\* leaving the earlier slots as they were.
C11_JoinPrecedence ==
    [][(Handled /\ CountIn(calls', "join") >= 1)
          => LET pkt == IF reservation # "" THEN
                            [type |-> "JoinPrepared", room_id |-> "",
                             reservation_code |-> reservation, data |-> NoData]
                        ELSE IF room_id # "" THEN
                            [type |-> "JoinRoom", room_id |-> room_id,
                             reservation_code |-> "", data |-> NoData]
                        ELSE [type |-> "Join", room_id |-> "",
                              reservation_code |-> "", data |-> NoData]
             IN /\ CountIn(calls', "join") = 1
                /\ SendsIn(calls') = <<pkt>>
                /\ sent' = Append(sent, pkt)
                /\ history' = Append(history, <<>>)]_vars

C11_Witness ==
    /\ response.kind = "Left"
    /\ reservation # NoValue /\ room_id # NoValue
    /\ Count("join") = 1
    /\ Len(history) = 2 /\ Len(history[1]) >= 2 /\ history[2] = <<>>
    /\ sent[Len(sent)].type = "JoinPrepared"

\* C12: stop() is idempotent.  Called in any state of the session it leaves
\* running false and the transport disconnected, disconnecting only if it
\* was connected; called again it changes nothing and does not disconnect a
\* second time.  Once running is false the loop's next step is its exit.
C12_StopIdempotent ==
    /\ [](pc # "init"
            => LET s1 == stop(Client)
                   s2 == stop([s1 EXCEPT !.calls = <<>>])
               IN /\ ~s1.running /\ ~s1.connected
                  /\ s1.calls = (IF connected THEN << <<"stop">>, <<"disconnect">> >>
                                 ELSE << <<"stop">> >>)
                  /\ s2.calls = << <<"stop">> >>
                  /\ [s2 EXCEPT !.calls = <<>>] = [s1 EXCEPT !.calls = <<>>])
    /\ [][(pc = "loop" /\ ~running)
            => (pc' = "exited" /\ UNCHANGED <<running, connected, sent, history>>)]_vars

\* stop() ran twice in one iteration and the loop then exited.
C12_Witness ==
    /\ Count("stop") = 2
    /\ Count("disconnect") = 1
    /\ ~running /\ ~connected
    /\ pc = "exited"

\* C13: with neither survive nor auto-reconnect, handling a Left packet
\* disconnects and stops at once: no connection attempt, no join packet, no
\* while_disconnected call, and running is false.
C13_LeftStops ==
    /\ [](pc # "init" /\ response.kind = "Left" /\ ~survive /\ ~auto_reconnect
            => /\ calls = << <<"on_game_left">>, <<"disconnect">>, <<"stop">> >>
               /\ ~running /\ ~connected)
    /\ [][(nrecv' = nrecv + 1 /\ response'.kind = "Left" /\ ~survive /\ ~auto_reconnect)
            => (sent' = sent /\ history' = history)]_vars

C13_Witness ==
    /\ response.kind = "Left" /\ ~survive /\ ~auto_reconnect
    /\ ~running /\ ~connected
    /\ Len(history[1]) >= 1

\* C14: for every state-update packet on_update is called exactly once, with
\* the snapshot that is now the last entry of the current history slot, in
\* the same iteration (so before any later packet), and calculate_move is
\* not called in that iteration.
C14_OnUpdate ==
    (pc # "init" /\ response.kind = "State")
        => LET slot == history[Len(history)]
           IN /\ Len(slot) >= 1
              /\ slot[Len(slot)].type = "GameState"
              /\ slot[Len(slot)].seq = nrecv
              /\ calls = << <<"on_update", slot[Len(slot)]>> >>

C14_Witness ==
    /\ response.kind = "State"
    /\ Len(Snapshots(history)) = 2
    /\ calls[1][2].prev # 0

\* C15: for every Left packet on_game_left is called exactly once, first,
\* and the transport is disconnected right after it, before anything else
\* of the reconnection procedure.
C15_OnGameLeft ==
    (pc # "init" /\ response.kind = "Left")
        => /\ Count("on_game_left") = 1
           /\ Len(calls) >= 2
           /\ calls[1] = <<"on_game_left">>
           /\ calls[2] = <<"disconnect">>

C15_Witness ==
    /\ response.kind = "Left"
    /\ auto_reconnect
    /\ Attempts = <<"ok">>
    /\ calls[1] = <<"on_game_left">>

\* C22: the history is append-only.  No step removes a slot or removes,
\* replaces or reorders an entry of a slot; entries are added at the end of
\* the last slot only; and slots are added, empty, only by join(), one per
\* run of join().
C22_AppendOnly ==
    [][/\ Len(history') >= Len(history)
       /\ \A i \in 1..Len(history) :
             /\ Len(history'[i]) >= Len(history[i])
             /\ SubSeq(history'[i], 1, Len(history[i])) = history[i]
             /\ (i < Len(history) => history'[i] = history[i])
       /\ \A j \in (Len(history) + 1)..Len(history') : history'[j] = <<>>
       /\ Len(history') - Len(history) =
             (IF Handled THEN CountIn(calls', "join") ELSE 0)]_vars

C22_Witness ==
    /\ Len(history) = 2
    /\ Len(history[1]) = 2
    /\ history[1][1].type = "GameState" /\ history[1][2].type = "Result"
    /\ Len(history[2]) = 1
    /\ response.kind = "State"
    /\ pc = "loop"

\* Positions of the GameState entries of a slot.
GameStateIndexes(slot) == {i \in 1..Len(slot) : slot[i].type = "GameState"}

\* C23: a state-update is reconciled against the most recent GameState of
\* the current slot even when Results were appended after it, and is built
\* from scratch when the current slot holds no GameState, whatever the
\* earlier slots hold.
C23_ReconcileLatest ==
    [][(nrecv' = nrecv + 1 /\ response'.kind = "State")
          => LET slot == history[Len(history)]
                 new == history'[Len(history')][Len(history'[Len(history')])]
                 at == GameStateIndexes(slot)
             IN /\ new.type = "GameState"
                /\ IF at = {} THEN new.prev = 0
                   ELSE \E i \in at : /\ \A j \in at : j <= i
                                       /\ new.prev = slot[i].seq
                                       /\ new.prev # 0]_vars

C23_Witness ==
    /\ response.kind = "State"
    /\ LET slot == history[Len(history)]
       IN /\ Len(slot) = 4
          /\ slot[1].type = "GameState"
          /\ slot[2].type = "Result"
          /\ slot[3].type = "Result"
          /\ slot[4].type = "GameState"
          /\ slot[4].prev = slot[1].seq

\* C24: after a Left packet, a successful reconnect and the rejoin, the
\* first state-update of the rejoined room is built from scratch, however
\* many snapshots the previous room's slot holds, and the earlier slots stay
\* as they were.
C24_RejoinFromScratch ==
    [][(/\ nrecv' = nrecv + 1 /\ response'.kind = "State"
        /\ auto_reconnect
        /\ Len(history) >= 2
        /\ GameStateIndexes(history[Len(history)]) = {})
          => /\ Len(history') = Len(history)
             /\ \A i \in 1..(Len(history) - 1) : history'[i] = history[i]
             /\ history'[Len(history)] =
                   Append(history[Len(history)],
                          [type |-> "GameState", seq |-> nrecv', prev |-> 0])
             /\ calls' = << <<"on_update",
                             [type |-> "GameState", seq |-> nrecv', prev |-> 0]>> >>]_vars

C24_Witness ==
    /\ response.kind = "State"
    /\ auto_reconnect
    /\ running /\ connected
    /\ Len(history) = 2
    /\ Cardinality(GameStateIndexes(history[1])) = 2
    /\ history[2] = << [type |-> "GameState", seq |-> nrecv, prev |-> 0] >>

\* C25: an empty read has no effect: no handler callback is invoked,
\* nothing is sent, the history, running and the connection state are
\* unchanged, and the loop goes on.
C25_EmptyRead ==
    [][(nrecv' = nrecv + 1 /\ response'.kind = "Empty")
          => /\ calls' = <<>>
             /\ sent' = sent
             /\ history' = history
             /\ running' = running /\ connected' = connected
             /\ first_time' = first_time
             /\ pc' = "loop" /\ running' /\ connected']_vars

C25_Witness ==
    /\ response.kind = "Empty"
    /\ nrecv = 3
    /\ calls = <<>>
    /\ Len(history) = 1 /\ Len(history[1]) = 1
    /\ Len(sent) = 2
    /\ running /\ connected /\ pc = "loop"

\* ---------------------------------------------------- Plugin2023: claims
\* Width and height of the board under test.
W == Cardinality(DOMAIN gameState.board)
H == Cardinality(DOMAIN gameState.board[0])
InBoard(x, y) == 0 <= x /\ x < W /\ 0 <= y /\ y < H

\* C16: an array coordinate (x, y), x >= 0, y >= 0, converted to double-hex
\* and back is (x, y) again, tagged array; and the double-hex image of such a
\* coordinate converted to array and back is the same double-hex coordinate.
C16_RoundTrip ==
    /\ (op = "arrayRoundTrip" => out = args)
    /\ (op = "doubleHexRoundTrip" => out = args)

\* C17: getMovesInDirection(origin, direction) returns exactly the moves
\* origin -> origin + k*direction for k = 1, 2, ... up to, not including,
\* the first k whose destination is outside the board.
C17_RayCast ==
    op = "getMovesInDirection"
        => LET origin == args[1]
               direction == args[2]
               Dest(k) == [x |-> origin.x + k * direction.dx,
                           y |-> origin.y + k * direction.dy, isDouble |-> TRUE]
               Inside(k) == isValid(gameState.board, Dest(k))
               n == CHOOSE m \in 0..(W + H) :
                       /\ \A k \in 1..m : Inside(k)
                       /\ ~Inside(m + 1)
           IN out = [k \in 1..n |-> [fromCoo |-> <<origin>>, toCoo |-> Dest(k)]]

\* C18: for an array coordinate (x, y), negative values included, isValid
\* holds iff 0 <= x < W and 0 <= y < H; getField raises IndexError exactly
\* when that fails and otherwise returns the stored field; getFieldOrNone
\* never raises and returns None exactly when that fails.
C18_BoardBounds ==
    /\ (op = "isValid" => (out <=> InBoard(args.x, args.y)))
    /\ (op = "getField"
          => IF InBoard(args.x, args.y)
             THEN /\ out.raised = "" /\ ~out.none
                  /\ out.field = gameState.board[args.x][args.y]
             ELSE out.raised = "IndexError")
    /\ (op = "getFieldOrNone"
          => /\ out.raised = ""
             /\ (out.none <=> ~InBoard(args.x, args.y))
             /\ (InBoard(args.x, args.y)
                   => out.field = gameState.board[args.x][args.y]))

C18_Witness ==
    /\ op = "getField"
    /\ W = 3 /\ H = 2
    /\ args.x = -1 /\ args.y = 1
    /\ out.raised = "IndexError"
    /\ gameState.turn = 1

\* Double-hex positions of the cells held by the team to move.
CurrentPenguins ==
    { [x |-> 2 * c[1] + (c[2] % 2), y |-> c[2], isDouble |-> TRUE] :
        c \in { d \in (0..(W - 1)) \X (0..(H - 1)) :
                  /\ gameState.board[d[1]][d[2]].isTeam
                  /\ gameState.board[d[1]][d[2]].team = gameState.currentTeam } }

\* C19: with fewer than 4 pieces of the team to move on the board every move
\* of getPossibleMoves has no origin; with 4 or more every move has an
\* origin, the position of one of that team's pieces.
C19_PhaseSwitch ==
    op = "getPossibleMoves"
        => /\ out.raised = ""
           /\ \A i \in 1..Len(out.moves) :
                 IF Cardinality(CurrentPenguins) < 4
                 THEN out.moves[i].fromCoo = <<>>
                 ELSE /\ Len(out.moves[i].fromCoo) = 1
                      /\ out.moves[i].fromCoo[1] \in CurrentPenguins

C19_Witness ==
    /\ op = "getPossibleMoves"
    /\ Cardinality(CurrentPenguins) = 4
    /\ Len(out.moves) > 0
    /\ Len(out.moves[1].fromCoo) = 1

\* C20: currentTeam is the start team on even turns and its opponent on odd
\* turns, otherTeam is always the opponent of currentTeam, and from one turn
\* to the next currentTeam changes to its opponent.
C20_TurnParity ==
    /\ [](/\ gameState.currentTeam \in {"ONE", "TWO"}
          /\ gameState.otherTeam \in {"ONE", "TWO"}
          /\ (gameState.turn % 2 = 0 => gameState.currentTeam = gameState.startTeam)
          /\ (gameState.turn % 2 = 1 => gameState.currentTeam # gameState.startTeam)
          /\ gameState.otherTeam # gameState.currentTeam)
    /\ [][gameState'.turn = gameState.turn + 1
            => /\ gameState'.startTeam = gameState.startTeam
               /\ gameState'.currentTeam = gameState.otherTeam
               /\ gameState'.otherTeam = gameState.currentTeam]_vars

C20_Witness ==
    /\ gameState.turn = 3
    /\ gameState.startTeam = "TWO"
    /\ gameState.currentTeam = "ONE"
    /\ gameState.otherTeam = "TWO"

\* C21: addVector and minusVector keep the receiver's tag and compute in
\* double-hex space: an array receiver yields the array form of (its
\* double-hex form +/- vector), a double-hex receiver yields receiver +/-
\* vector, tagged double-hex.
C21_VectorOps ==
    op \in {"addVector", "minusVector"}
        => LET c == args[1]
               sign == IF op = "addVector" THEN 1 ELSE -1
               d == IF c.isDouble THEN c
                    ELSE [x |-> 2 * c.x + (c.y % 2), y |-> c.y, isDouble |-> TRUE]
               moved == [x |-> d.x + sign * args[2].dx,
                         y |-> d.y + sign * args[2].dy, isDouble |-> TRUE]
           IN /\ out.isDouble = c.isDouble
              /\ out = (IF c.isDouble THEN moved ELSE doubleHexToArray(moved))

\* Array cells the placement scan may offer: all but the last row and the
\* last column, unoccupied, with exactly one fish.
PlacementCells ==
    { c \in (0..(W - 2)) \X (0..(H - 2)) :
        /\ ~gameState.board[c[1]][c[2]].isTeam
        /\ gameState.board[c[1]][c[2]].fish = 1 }

\* C26: with fewer than 4 pieces of the team to move on the board,
\* getPossibleMoves returns exactly one move without origin for each array
\* cell (x, y), 0 <= x < W-1, 0 <= y < H-1, that is unoccupied and holds
\* exactly one fish, to that cell in double-hex form, and no other move.
C26_Placement ==
    (op = "getPossibleMoves" /\ Cardinality(CurrentPenguins) < 4)
        => /\ out.raised = ""
           /\ Len(out.moves) = Cardinality(PlacementCells)
           /\ {out.moves[i] : i \in 1..Len(out.moves)} =
                 { [fromCoo |-> <<>>,
                    toCoo |-> [x |-> 2 * c[1] + (c[2] % 2), y |-> c[2], isDouble |-> TRUE]] :
                   c \in PlacementCells }

C26_Witness ==
    /\ op = "getPossibleMoves"
    /\ W = 3 /\ H = 3
    /\ gameState.turn = 2
    /\ Len(out.moves) = 2
    /\ out.moves[2].toCoo = [x |-> 3, y |-> 1, isDouble |-> TRUE]
    /\ gameState.board[2][2] = [isTeam |-> FALSE, fish |-> 1, team |-> ""]

\* C27: on every board, square or not, getAllFields succeeds and returns
\* W*H fields, the field of each cell of the grid exactly once.
C27_AllFields ==
    op = "getAllFields"
        => /\ out.raised = ""
           /\ Len(out.fields) = W * H
           /\ \A f \in {out.fields[i] : i \in 1..Len(out.fields)}
                        \cup {gameState.board[c[1]][c[2]] : c \in (0..(W - 1)) \X (0..(H - 1))} :
                 Cardinality({i \in 1..Len(out.fields) : out.fields[i] = f}) =
                 Cardinality({c \in (0..(W - 1)) \X (0..(H - 1)) :
                                gameState.board[c[1]][c[2]] = f})

TypeOK ==
    /\ running \in BOOLEAN
    /\ connected \in BOOLEAN
    /\ pc \in {"init", "loop", "exited", "crashed"}
    /\ nrecv \in 0..MaxPackets
====
